---- MODULE Spec2Model ----
(***************************************************************************)
(* Model of ML_model/backend/app.py: the Flask prediction backend.         *)
(*                                                                         *)
(* Two specifications share the variables:                                 *)
(*   SpecStartup  the one-time bootstrap (initialize_app) over every prior *)
(*                content of trained_model/, followed by the read-only     *)
(*                GET routes;                                              *)
(*   Spec         the steady state: two handler threads of the threaded    *)
(*                development server serving GET /api/health and           *)
(*                POST /api/predict, started from the states a fresh       *)
(*                deployment boots into.                                   *)
(*                                                                         *)
(* Optional values (Python None) are sequences of length <= 1: <<>> is     *)
(* None and <<v>> is v.  Times are integers; 0 is the moment the process   *)
(* starts and negative times lie in the past.  Accuracy and confidence are *)
(* in hundredths.  File names are sequences of one-character strings.      *)
(***************************************************************************)
EXTENDS Integers, Sequences, FiniteSets, TLC

\* ------------------------------------------------------------------ bounds
MaxClock == 2
TicksPerSecond == 2
MaxRows == 2

\* --------------------------------------------------------------- constants
MockAccuracy == 85
ConfLo == 70
ConfHi == 95

Workers == {"w1", "w2"}

Labels == <<"Class A", "Class B", "Class C">>

MockFeatures == <<"Feature1", "Feature2", "Feature3", "Feature4">>

\* ------------------------------------------------------------------ strings
UpperCase == <<"A", "C", "S", "V", "T", "X">>
LowerCase == <<"a", "c", "s", "v", "t", "x">>

LowerChar(c) ==
    IF \E i \in 1..Len(UpperCase) : UpperCase[i] = c
    THEN LowerCase[CHOOSE i \in 1..Len(UpperCase) : UpperCase[i] = c]
    ELSE c

lower(s) == [i \in 1..Len(s) |-> LowerChar(s[i])]

endswith(s, suffix) ==
    /\ Len(s) >= Len(suffix)
    /\ SubSeq(s, Len(s) - Len(suffix) + 1, Len(s)) = suffix

DotCsv == <<".", "c", "s", "v">>

\* file.filename.lower().endswith('.csv') with a suffix that forgets the dot
is_csv_filename_nodot(filename) == endswith(lower(filename), <<"c", "s", "v">>)

is_csv_filename(filename) == endswith(lower(filename), DotCsv)

Filenames ==
    { <<>>,
      <<"A", ".", "C", "S", "V">>,
      <<"a", ".", "t", "x", "t">>,
      <<"a", "c", "s", "v">> }

\* ---------------------------------------------------------------- metadata
DefaultMetadata ==
    [ model_type   |-> "Not loaded",
      accuracy     |-> <<>>,
      last_trained |-> <<>>,
      features     |-> <<>>,
      status       |-> "No model loaded" ]

MockMetadata(now) ==
    [ model_type   |-> "Random Forest (Mock)",
      accuracy     |-> <<MockAccuracy>>,
      last_trained |-> <<now>>,
      features     |-> MockFeatures,
      status       |-> "Mock model loaded for testing" ]

\* dict.update: the keys of doc overwrite, the other keys stay
dict_update(md, doc) ==
    [k \in (DOMAIN md) \cup (DOMAIN doc) |-> IF k \in DOMAIN doc THEN doc[k] ELSE md[k]]

\* A metadata file on disk: <<>> when absent, else <<[valid, doc]>>; valid is
\* FALSE when the bytes are not a JSON document (a write that broke off).
JsonFile(doc) == << [valid |-> TRUE, doc |-> doc] >>
CorruptFile == << [valid |-> FALSE, doc |-> [model_type |-> "Not loaded"]] >>

load_model_metadata(md, file, readOk) ==
    IF file = <<>> THEN md
    ELSE IF ~readOk \/ ~file[1].valid THEN md
    ELSE dict_update(md, file[1].doc)

SaveOutcomes == {"ok", "open_failed", "write_failed"}

save_model_metadata(md, file, outcome) ==
    CASE outcome = "ok"           -> JsonFile(md)
      [] outcome = "open_failed"  -> file
      [] outcome = "write_failed" -> CorruptFile

\* --------------------------------------------------------------- predictor
NewModel == [is_trained |-> FALSE, model |-> "None"]

\* MLModel.load_model: create_mock_model may raise (mockOk = FALSE)
load_model(m, mockOk) ==
    IF mockOk
    THEN [ok |-> TRUE,  m |-> [is_trained |-> TRUE, model |-> "RandomForestClassifier"]]
    ELSE [ok |-> FALSE, m |-> m]

Unavailable == [ok |-> FALSE, predictions |-> <<>>, confidence |-> <<>>]

\* A dataset handed to MLModel.predict: a DataFrame has a shape.
DataFrame(rows) == [has_shape |-> TRUE, has_len |-> TRUE, rows |-> rows]

\* The draws of np.random for one call: draw d gives row i the label
\* Labels[(d + i) mod 3 + 1] and the confidence ConfLo or ConfHi by the parity of
\* d + i (a sample of the generator's streams, one per starting point).
Draws == 0..(Len(Labels) - 1)
random_choice(d, n) == [i \in 1..n |-> Labels[((d + i) % Len(Labels)) + 1]]
random_uniform(d, n) == [i \in 1..n |-> IF (d + i) % 2 = 0 THEN ConfLo ELSE ConfHi]

\* MLModel.predict; labels and confs are the draws of np.random
MLModel_predict(m, data, labels, confs) ==
    IF ~m.is_trained \/ m.model = "None" THEN Unavailable
    ELSE IF ~data.has_shape /\ ~data.has_len THEN Unavailable
    ELSE LET n_samples == Len(data.rows)
         IN  [ ok          |-> TRUE,
               predictions |-> [i \in 1..n_samples |-> labels[i]],
               confidence  |-> [i \in 1..n_samples |-> confs[i]] ]

Min(a, b) == IF a < b THEN a ELSE b

format_predictions(df, predictions, confidence) ==
    [i \in 1..Min(Len(predictions), Len(confidence)) |->
        [id |-> i, prediction |-> predictions[i], confidence |-> <<confidence[i]>>]]

\* ----------------------------------------------------------------- uploads
\* The bytes of an uploaded file, as pandas sees them: not parseable at all,
\* or a table of `columns` header names and a sequence of data rows.
Garbage == [parseable |-> FALSE, columns |-> 0, rows |-> <<>>]
Table(n) == [parseable |-> TRUE, columns |-> 1, rows |-> [i \in 1..n |-> i]]

\* The uploads tried: bytes that are no CSV, a header alone, one row, MaxRows rows.
UploadContents == {Garbage} \cup {Table(n) : n \in {0, 1, MaxRows}}

\* datetime.now().strftime('%Y%m%d_%H%M%S'): the clock cut to whole seconds
strftime(now) == now \div TicksPerSecond

Filepaths == {strftime(t) : t \in 0..MaxClock}

\* file.save(filepath) that writes nothing
file_save_nothing(files, filepath, content) == files

\* file.save(filepath): creates or overwrites the file at filepath
file_save(files, filepath, content) == [files EXCEPT ![filepath] = <<content>>]

\* pd.read_csv(filepath): raises on a missing file, on bytes it cannot
\* tokenise and on a file without columns
read_csv(files, filepath) ==
    IF files[filepath] = <<>> THEN [ok |-> FALSE, df |-> Garbage]
    ELSE IF ~files[filepath][1].parseable THEN [ok |-> FALSE, df |-> Garbage]
    ELSE IF files[filepath][1].columns = 0 THEN [ok |-> FALSE, df |-> Garbage]
    ELSE [ok |-> TRUE, df |-> files[filepath][1]]

df_empty(df) == Len(df.rows) = 0 \/ df.columns = 0

\* ---------------------------------------------------------------- startup
NoLog == [ran |-> FALSE, branch |-> "none", loaded |-> FALSE,
          updated |-> DefaultMetadata, write_failed |-> FALSE]

\* initialize_app as a function of the process state and of what the
\* environment answers: mockOk (create_mock_model succeeds), saveOutcome (the
\* write of model_metadata.json), readOk (its read).
initialize_app(md, file, mdl, pkl, now, mockOk, saveOutcome, readOk) ==
    LET loaded == load_model(mdl, mockOk)
        md1 == IF pkl # <<>>
               THEN IF loaded.ok
                    THEN [md EXCEPT !.status = "Model loaded successfully",
                                    !.last_trained = <<pkl[1]>>]
                    ELSE [md EXCEPT !.status = "Error loading model"]
               ELSE IF loaded.ok THEN dict_update(md, MockMetadata(now)) ELSE md
        saves == pkl = <<>> /\ loaded.ok
        file1 == IF saves THEN save_model_metadata(md1, file, saveOutcome) ELSE file
        md2 == load_model_metadata(md1, file1, readOk)
    IN  [ metadata |-> md2,
          file     |-> file1,
          model    |-> loaded.m,
          log      |-> [ ran          |-> TRUE,
                         branch       |-> IF pkl # <<>> THEN "real" ELSE "stub",
                         loaded       |-> loaded.ok,
                         updated      |-> md1,
                         write_failed |-> saves /\ saveOutcome # "ok" ] ]

\* What trained_model/model_metadata.json can hold when the process starts:
\* nothing, a broken write, the record an earlier stub run saved, a record
\* delivered with a trained model, or such a record with descriptive keys only.
EarlierMockRecord == MockMetadata(-2)

TrainedRecord ==
    [ model_type   |-> "Gradient Boosting",
      accuracy     |-> <<92>>,
      last_trained |-> <<-2>>,
      features     |-> <<"hours", "tasks">>,
      status       |-> "Trained" ]

DescriptiveRecord ==
    [ model_type |-> "Gradient Boosting",
      accuracy   |-> <<92>>,
      features   |-> <<"hours", "tasks">> ]

PriorFiles ==
    { <<>>, CorruptFile, JsonFile(EarlierMockRecord), JsonFile(TrainedRecord),
      JsonFile(DescriptiveRecord), JsonFile([status |-> "Trained"]) }

PriorPkl == { <<>>, <<-1>> }

\* ------------------------------------------------------------------- state
VARIABLES
    phase,             \* "boot" before the server runs, then "serving"
    clock,             \* datetime.now(), in ticks
    model_metadata,    \* the global dict
    metadata_file,     \* trained_model/model_metadata.json
    model_pkl,         \* trained_model/model.pkl: <<>> or <<mtime>>
    ml_model,          \* the global MLModel instance
    init_log,          \* what initialize_app did (history)
    served_from,       \* the shared state when the server began to serve (history)
    upload_folder_ok,  \* uploads/ can be written
    uploads,           \* uploads/: filepath -> <<>> or <<bytes>>
    req,               \* the predict request each handler thread is in
    response,          \* the latest HTTP response sent
    answered           \* the request it answers (history)

vars == << phase, clock, model_metadata, metadata_file, model_pkl, ml_model,
           init_log, served_from, upload_folder_ok, uploads, req, response, answered >>

shared == << model_metadata, metadata_file, ml_model >>

Idle == [pc |-> "idle", filename |-> <<>>, filepath |-> 0, upload |-> Garbage]

NoResponse == [route |-> "none", status |-> 0, body |-> [none |-> TRUE]]

NoRequest == [route |-> "none", has_file |-> FALSE,
              filename |-> <<>>, upload |-> Garbage, saved |-> FALSE]

Get(route) == [NoRequest EXCEPT !.route = route]

ErrorBody(msg) == [success |-> FALSE, error |-> msg]

InitCommon ==
    /\ clock = 0
    /\ served_from = shared
    /\ upload_folder_ok = TRUE
    /\ uploads = [p \in Filepaths |-> <<>>]
    /\ req = [w \in Workers |-> Idle]
    /\ response = NoResponse
    /\ answered = NoRequest

\* The module is imported: globals at their defaults, nothing initialised.
InitStartup ==
    /\ phase = "boot"
    /\ model_metadata = DefaultMetadata
    /\ ml_model = NewModel
    /\ init_log = NoLog
    /\ metadata_file \in PriorFiles
    /\ model_pkl \in PriorPkl
    /\ InitCommon

\* if __name__ == '__main__': initialize_app(), then app.run
InitializeApp ==
    /\ phase = "boot"
    /\ \E mockOk \in BOOLEAN, saveOutcome \in SaveOutcomes, readOk \in BOOLEAN :
          LET r == initialize_app(model_metadata, metadata_file, ml_model, model_pkl,
                                  clock, mockOk, saveOutcome, readOk)
          IN  /\ model_metadata' = r.metadata
              /\ metadata_file' = r.file
              /\ ml_model' = r.model
              /\ init_log' = r.log
              /\ served_from' = << r.metadata, r.file, r.model >>
    /\ phase' = "serving"
    /\ UNCHANGED << clock, model_pkl, upload_folder_ok, uploads, req, response, answered >>

\* GET /api/health that also records the probe in model_metadata["status"]
HealthCheckTouch ==
    /\ phase = "serving"
    /\ response' = [ route  |-> "health",
                     status |-> 200,
                     body   |-> [ status       |-> "healthy",
                                  timestamp    |-> clock,
                                  message      |-> "ML Workshop Backend is running",
                                  model_status |-> model_metadata.status ] ]
    /\ answered' = Get("health")
    /\ model_metadata' = [model_metadata EXCEPT !.status = "healthy"]
    /\ UNCHANGED << phase, clock, metadata_file, model_pkl, ml_model, init_log, served_from,
                    upload_folder_ok, uploads, req >>

HealthCheck ==
    /\ phase = "serving"
    /\ response' = [ route  |-> "health",
                     status |-> 200,
                     body   |-> [ status       |-> "healthy",
                                  timestamp    |-> clock,
                                  message      |-> "ML Workshop Backend is running",
                                  model_status |-> model_metadata.status ] ]
    /\ answered' = Get("health")
    /\ UNCHANGED << phase, clock, model_metadata, metadata_file, model_pkl, ml_model,
                    init_log, served_from, upload_folder_ok, uploads, req >>

GetModelInfo ==
    /\ phase = "serving"
    /\ response' = [ route  |-> "model-info",
                     status |-> 200,
                     body   |-> [ success      |-> TRUE,
                                  model_type   |-> model_metadata.model_type,
                                  accuracy     |-> model_metadata.accuracy,
                                  last_trained |-> model_metadata.last_trained,
                                  features     |-> model_metadata.features,
                                  status       |-> model_metadata.status ] ]
    /\ answered' = Get("model-info")
    /\ UNCHANGED << phase, clock, model_metadata, metadata_file, model_pkl, ml_model,
                    init_log, served_from, upload_folder_ok, uploads, req >>

NextStartup == InitializeApp \/ GetModelInfo \/ HealthCheck

SpecStartup == InitStartup /\ [][NextStartup]_vars

\* --------------------------------------------------------------- serving
\* The module is imported by a server that never runs the __main__ block:
\* requests are served with the globals as the import left them.
ServeWithoutInit ==
    /\ phase = "boot"
    /\ phase' = "serving"
    /\ served_from' = shared
    /\ UNCHANGED << clock, model_metadata, metadata_file, model_pkl, ml_model, init_log,
                    upload_folder_ok, uploads, req, response, answered >>

Tick ==
    /\ clock < MaxClock
    /\ clock' = clock + 1
    /\ UNCHANGED << phase, model_metadata, metadata_file, model_pkl, ml_model, init_log, served_from,
                    upload_folder_ok, uploads, req, response, answered >>

\* uploads/ stops being writable (removed, read-only, disk full)
UploadFolderBreaks ==
    /\ upload_folder_ok
    /\ upload_folder_ok' = FALSE
    /\ UNCHANGED << phase, clock, model_metadata, metadata_file, model_pkl, ml_model,
                    init_log, served_from, uploads, req, response, answered >>

Reply(r, status, body) ==
    /\ response' = [route |-> "predict", status |-> status, body |-> body]
    /\ answered' = r

\* POST /api/predict up to file.save: the checks of the upload, the
\* timestamped path and the write of the raw upload
PredictReceive(w) ==
    /\ phase = "serving"
    /\ req[w].pc = "idle"
    /\ \E has_file \in BOOLEAN :
       \E filename \in (IF has_file THEN Filenames ELSE {<<>>}) :
       \E content \in (IF has_file THEN UploadContents ELSE {Garbage}) :
          LET r == [ route |-> "predict", has_file |-> has_file,
                     filename |-> filename, upload |-> content,
                     saved |-> FALSE ]
              filepath == strftime(clock)
          IN  IF ~has_file
              THEN /\ Reply(r, 400, ErrorBody("No file uploaded"))
                   /\ UNCHANGED << uploads, req >>
              ELSE IF filename = <<>>
              THEN /\ Reply(r, 400, ErrorBody("No file selected"))
                   /\ UNCHANGED << uploads, req >>
              ELSE IF ~is_csv_filename(filename)
              THEN /\ Reply(r, 400, ErrorBody("File must be CSV format"))
                   /\ UNCHANGED << uploads, req >>
              ELSE IF ~upload_folder_ok
              THEN /\ Reply(r, 500, ErrorBody("Server error"))
                   /\ UNCHANGED << uploads, req >>
              ELSE /\ uploads' = file_save(uploads, filepath, content)
                   /\ req' = [req EXCEPT ![w] = [ pc |-> "saved", filename |-> filename,
                                                  filepath |-> filepath, upload |-> content ]]
                   /\ UNCHANGED << response, answered >>
    /\ UNCHANGED << phase, clock, model_metadata, metadata_file, model_pkl, ml_model,
                    init_log, served_from, upload_folder_ok >>

\* POST /api/predict from pd.read_csv to the response
PredictParse(w) ==
    /\ req[w].pc = "saved"
    /\ LET r == [ route |-> "predict", has_file |-> TRUE,
                  filename |-> req[w].filename, upload |-> req[w].upload,
                  saved |-> TRUE ]
           parsed == read_csv(uploads, req[w].filepath)
           df == parsed.df
       IN  IF ~parsed.ok
           THEN Reply(r, 400, ErrorBody("Error reading CSV"))
           ELSE IF df_empty(df)
           THEN Reply(r, 400, ErrorBody("CSV file is empty"))
           ELSE \E d \in Draws :
                   LET n == Len(df.rows)
                       out == MLModel_predict(ml_model, DataFrame(df.rows),
                                              random_choice(d, n), random_uniform(d, n))
                   IN  IF ~out.ok
                       THEN Reply(r, 500, ErrorBody("Model prediction failed"))
                       ELSE Reply(r, 200,
                              [ success     |-> TRUE,
                                predictions |-> format_predictions(df, out.predictions,
                                                                   out.confidence),
                                summary     |-> [ total_samples |-> Len(df.rows),
                                                  model_used    |-> model_metadata.model_type,
                                                  accuracy      |-> model_metadata.accuracy ] ])
    /\ req' = [req EXCEPT ![w] = Idle]
    /\ UNCHANGED << phase, clock, model_metadata, metadata_file, model_pkl, ml_model,
                    init_log, served_from, upload_folder_ok, uploads >>

\* A fresh deployment: trained_model/ is empty (SpecStartup covers the rest).
Init ==
    /\ phase = "boot"
    /\ model_metadata = DefaultMetadata
    /\ ml_model = NewModel
    /\ init_log = NoLog
    /\ metadata_file = <<>>
    /\ model_pkl = <<>>
    /\ InitCommon

Next ==
    \/ InitializeApp
    \/ ServeWithoutInit
    \/ Tick
    \/ UploadFolderBreaks
    \/ HealthCheck
    \/ \E w \in Workers : PredictReceive(w)
    \/ \E w \in Workers : PredictParse(w)

Spec == Init /\ [][Next]_vars

\* ------------------------------------------------------------ claim terms
\* The predictor is ready: MLModel.predict will not answer (None, None).
Ready == ml_model.is_trained /\ ml_model.model # "None"

LastDot(s) ==
    IF \E i \in 1..Len(s) : s[i] = "."
    THEN CHOOSE i \in 1..Len(s) : s[i] = "." /\ \A j \in (i + 1)..Len(s) : s[j] # "."
    ELSE 0

\* The extension of a file name: what follows its last dot, if it has one.
Extension(s) == IF LastDot(s) = 0 THEN <<>> ELSE SubSeq(s, LastDot(s) + 1, Len(s))

HasCsvExtension(s) == lower(Extension(s)) = <<"c", "s", "v">>

\* The answered request uploaded a CSV file that passed the checks of the
\* upload and was stored.
StoredCsvUpload ==
    /\ answered.route = "predict"
    /\ answered.has_file
    /\ HasCsvExtension(answered.filename)
    /\ answered.saved

\* Its bytes are a valid CSV table.
ValidCsv(bytes) == bytes.parseable /\ bytes.columns >= 1

ModelTypesNamingMock == {"Random Forest (Mock)"}

\* ------------------------------------------------------------------ claims

\* C1: a predict request that uploaded a valid CSV of N >= 1 rows, with the
\* predictor ready, is answered 200 with exactly N predictions, ids 1..N in row
\* order, and summary.total_samples = N.
C1_ExactlyNPredictions ==
    ( /\ StoredCsvUpload
      /\ ValidCsv(answered.upload)
      /\ Len(answered.upload.rows) >= 1
      /\ Ready )
    => /\ response.status = 200
       /\ Len(response.body.predictions) = Len(answered.upload.rows)
       /\ \A i \in 1..Len(response.body.predictions) : response.body.predictions[i].id = i
       /\ response.body.summary.total_samples = Len(answered.upload.rows)

\* C2: after initialize_app ran without a model.pkl and installed the stub,
\* GET /api/model-info shows the stub descriptor (a model_type naming Mock,
\* accuracy 0.85, four features), whatever the metadata record held before and
\* whether or not the save succeeded.
C2_ModelInfoShowsStub ==
    ( /\ init_log.ran
      /\ init_log.branch = "stub"
      /\ init_log.loaded
      /\ response.route = "model-info" )
    => /\ response.body.model_type \in ModelTypesNamingMock
       /\ response.body.accuracy = <<MockAccuracy>>
       /\ Len(response.body.features) = 4

\* C3: after initialize_app loaded the model of an existing model.pkl, the
\* status and last_trained it set for that load are the in-memory values,
\* whatever an older metadata record contains.
C3_FreshLoadNotOverwritten ==
    ( /\ init_log.ran
      /\ init_log.branch = "real"
      /\ init_log.loaded )
    => /\ model_metadata.status = "Model loaded successfully"
       /\ model_metadata.last_trained = <<model_pkl[1]>>
       /\ model_metadata.status = init_log.updated.status
       /\ model_metadata.last_trained = init_log.updated.last_trained

\* C4: while the server serves GET /api/health and POST /api/predict requests,
\* model_metadata, the metadata record on disk and the predictor (is_trained,
\* model) equal their values from before the requests.
C4_RequestsLeaveSharedState ==
    phase = "serving" => shared = served_from

\* C4 witness: with the stub installed and its record saved, a predict request
\* was answered 200 while another upload is stored and waits to be parsed.
C4_Witness ==
    /\ init_log.ran
    /\ model_metadata.status = "Mock model loaded for testing"
    /\ metadata_file = JsonFile(model_metadata)
    /\ response.route = "predict"
    /\ response.status = 200
    /\ \E w \in Workers : req[w].pc = "saved"

\* C5: a predict request whose file name has a non-CSV extension is answered
\* 400 {success: false, error: "File must be CSV format"}, whatever the file
\* holds, whether or not the predictor is ready or uploads/ is writable.
C5_NonCsvRejected ==
    ( /\ answered.route = "predict"
      /\ answered.has_file
      /\ answered.filename # <<>>
      /\ ~HasCsvExtension(answered.filename) )
    => /\ response.status = 400
       /\ response.body = ErrorBody("File must be CSV format")

\* C5 witness: a valid two-row table under a .txt name is rejected while the
\* predictor is ready and uploads/ is broken.
C5_Witness ==
    /\ answered.route = "predict"
    /\ answered.filename = <<"a", ".", "t", "x", "t">>
    /\ answered.upload = Table(MaxRows)
    /\ Ready
    /\ ~upload_folder_ok
    /\ response.status = 400

\* C6: a predict request that uploaded a valid CSV with zero data rows is
\* answered 400 "CSV file is empty" and never reaches the predictor.
C6_EmptyCsvRejected ==
    ( /\ StoredCsvUpload
      /\ ValidCsv(answered.upload)
      /\ Len(answered.upload.rows) = 0 )
    => /\ response.status = 400
       /\ response.body = ErrorBody("CSV file is empty")

\* C7: with the predictor not ready MLModel.predict answers Unavailable, and a
\* predict request that uploaded a valid non-empty CSV is answered 500
\* {success: false, error: "Model prediction failed"} with no predictions.
C7_NotReadyAnswers500 ==
    /\ ~Ready => \A d \in Draws, n \in 0..MaxRows :
                    MLModel_predict(ml_model, DataFrame(Table(n).rows),
                                    random_choice(d, n), random_uniform(d, n)) = Unavailable
    /\ ( /\ StoredCsvUpload
         /\ ValidCsv(answered.upload)
         /\ Len(answered.upload.rows) >= 1
         /\ ~Ready )
       => /\ response.status = 500
          /\ response.body = ErrorBody("Model prediction failed")

\* Responses that POST /api/predict sends only after pd.read_csv was called.
ParsedResponse ==
    /\ response.route = "predict"
    /\ \/ response.status = 200
       \/ response.body \in { ErrorBody("Error reading CSV"), ErrorBody("CSV file is empty"),
                              ErrorBody("Model prediction failed") }

\* C8 as stated: the upload is stored before parsing is attempted, and a
\* failure to store it does not block the request: no request is answered
\* with the error of the failed write.
C8_PersistenceBestEffort ==
    /\ \A w \in Workers : req[w].pc = "saved" => uploads[req[w].filepath] # <<>>
    /\ ParsedResponse => answered.saved
    /\ response.route = "predict" => response.body # ErrorBody("Server error")

\* C8 amended: the upload is stored at its timestamped path before parsing is
\* attempted, whether or not parsing fails later; a request whose upload passed
\* the checks but could not be stored is answered 500 {success: false, error}
\* and is never parsed.
C8_PersistedBeforeParsing ==
    /\ \A w \in Workers : req[w].pc = "saved" => uploads[req[w].filepath] # <<>>
    /\ ParsedResponse => answered.saved
    /\ ( /\ answered.route = "predict"
         /\ answered.has_file
         /\ HasCsvExtension(answered.filename)
         /\ ~answered.saved )
       => /\ response.status = 500
          /\ response.body = ErrorBody("Server error")

\* C8 witness: parsing failed on bytes that are not CSV, and those bytes are
\* in uploads/.
C8_Witness ==
    /\ answered.route = "predict"
    /\ answered.saved
    /\ answered.upload = Garbage
    /\ response.body = ErrorBody("Error reading CSV")
    /\ \E p \in Filepaths : uploads[p] = <<Garbage>>

\* C9: two predict requests in flight at the same time hold distinct file
\* paths, and every request answered 200 was answered from the bytes it
\* uploaded itself.
C9_UploadsNeverCollide ==
    /\ \A w1, w2 \in Workers :
          (w1 # w2 /\ req[w1].pc = "saved" /\ req[w2].pc = "saved")
          => req[w1].filepath # req[w2].filepath
    /\ (StoredCsvUpload /\ response.status = 200)
       => /\ ValidCsv(answered.upload)
          /\ response.body.summary.total_samples = Len(answered.upload.rows)
          /\ Len(response.body.predictions) = Len(answered.upload.rows)

\* C10: after initialize_app loaded a model and updated model_metadata (on the
\* real-model path or the stub path) and no write failed, the metadata record
\* exists on disk and equals the in-memory model_metadata.
C10_MetadataPersisted ==
    ( /\ init_log.ran
      /\ init_log.loaded
      /\ ~init_log.write_failed )
    => metadata_file = JsonFile(model_metadata)

====
